---- MODULE Spec2Model ----
(***************************************************************************)
(* Model of src/app.py: generate_ics_content (the itinerary-to-calendar    *)
(* converter) run by one or several callers, and the Streamlit page that  *)
(* keeps the session state, calls run_travel_planner and exports the      *)
(* stored itinerary.                                                       *)
(*                                                                         *)
(* A text is a sequence of one-character strings.  The regular expression  *)
(*     Day (\d+)[:\s]+(.*?)(?=Day \d+|$)      (re.DOTALL)                   *)
(* is modelled by the backtracking order of its quantifiers; dates are     *)
(* <<year, month, day>> triples with the proleptic Gregorian arithmetic    *)
(* datetime uses.  The returned document is kept as its component tree     *)
(* (prodid, version, events); the byte serialisation of the icalendar      *)
(* library is not part of src/app.py.                                      *)
(***************************************************************************)
EXTENDS Integers, Sequences, FiniteSets, TLC

\* Per caller c, the call of generate_ics_content it is in:
\*   pc[c]      where the call stands: idle, fallback, loop, return, done, raised
\*   text[c]    plan_text                          (line 23)
\*   start[c]   the start_date argument            (line 23)
\*   sdate[c]   start_date after the default       (lines 38-39)
\*   days[c]    the list findall returned          (line 43)
\*   idx[c]     the position of the for loop       (line 55)
\*   result[c]  the calendar handed back           (line 70)
\*   err[c]     the exception that ended the call
\*   calls[c]   the number of calls c has issued
\* cals[k] is the Calendar object k (line 34), clock the readings of
\* datetime.now() so far (lines 51, 67).
\*
\* The page:
\*   session    st.session_state: setup_complete, gemini_api_key,
\*              google_maps_key, itinerary, theme   (lines 207-208, 427-438)
\*   ui         what the last run of the script did: the interface it drew
\*              (page), the handler it ran (last), the itinerary it showed
\*   planner    the call of run_travel_planner in progress (lines 72-195)
VARIABLES pc, text, start, sdate, days, idx, cals, result, err, clock, calls,
          session, ui, planner

convVars == <<pc, text, start, sdate, days, idx, cals, result, err, clock, calls>>

appVars == <<session, ui, planner>>

vars == <<convVars, appVars>>

(* ------------------------------ bounds -------------------------------- *)

\* Number of fragments an itinerary text is assembled from.
MaxFrags == 4
\* Number of conversions each concurrent caller issues.
MaxCalls == 2

(* ---------------------------- characters ------------------------------ *)

Digits == <<"0", "1", "2", "3", "4", "5", "6", "7", "8", "9">>

\* \d
IsDigit(ch) == \E v \in 1..10 : Digits[v] = ch

DigitVal(ch) == (CHOOSE v \in 1..10 : Digits[v] = ch) - 1

\* \s, and the characters str.strip() removes
IsSpace(ch) == ch \in {" ", "\n", "\t"}

\* [:\s]
IsSep(ch) == ch = ":" \/ IsSpace(ch)

\* t[a..b], empty when b < a
Slice(t, a, b) == [x \in 1..(b - a + 1) |-> t[a + x - 1]]

(* ----------------------- the pattern, at position i -------------------- *)

\* the literal "day " matched without regard to case (re.IGNORECASE)
LitAnyCase(t, i) ==
    /\ i + 3 <= Len(t)
    /\ t[i] \in {"D", "d"} /\ t[i + 1] = "a" /\ t[i + 2] = "y" /\ t[i + 3] = " "

\* the literal "Day " starts at i
Lit(t, i) ==
    /\ i + 3 <= Len(t)
    /\ t[i] = "D" /\ t[i + 1] = "a" /\ t[i + 2] = "y" /\ t[i + 3] = " "

\* $ without re.MULTILINE: the end of the string, or just before a final newline
AtDollar(t, p) == p = Len(t) + 1 \/ (p = Len(t) /\ t[p] = "\n")

\* (?=Day \d+|$) at p: one digit is enough for \d+ to succeed, and no
\* separator is asked for
LookAhead(t, p) ==
    \/ Lit(t, p) /\ p + 4 <= Len(t) /\ IsDigit(t[p + 4])
    \/ AtDollar(t, p)

\* ends j of (\d+) started at i+4: t[i+4..j-1] are digits, at least one
DigitEnds(t, i) ==
    {j \in (i + 5)..(Len(t) + 1) : \A x \in (i + 4)..(j - 1) : IsDigit(t[x])}

\* ends k of [:\s]+ started at j: t[j..k-1] are separators, at least one
SepEnds(t, j) ==
    {k \in (j + 1)..(Len(t) + 1) : \A x \in j..(k - 1) : IsSep(t[x])}

\* ends p of (.*?) started at k, where the lookahead succeeds (. matches any
\* character under re.DOTALL)
ContentEnds(t, k) == {p \in k..(Len(t) + 1) : LookAhead(t, p)}

Max(S) == CHOOSE x \in S : \A y \in S : y <= x
Min(S) == CHOOSE x \in S : \A y \in S : x <= y

NoMatch == [ok |-> FALSE]

\* The match the engine reports at i: \d+ and [:\s]+ greedy (longest first),
\* .*? lazy (shortest first), backtracking into the earlier quantifier when
\* the later ones cannot succeed.
MatchAt(t, i) ==
    IF ~Lit(t, i) THEN NoMatch
    ELSE LET J == {j \in DigitEnds(t, i) :
                     \E k \in SepEnds(t, j) : ContentEnds(t, k) # {}}
         IN  IF J = {} THEN NoMatch
             ELSE LET j == Max(J)
                      k == Max({k \in SepEnds(t, j) : ContentEnds(t, k) # {}})
                      p == Min(ContentEnds(t, k))
                  IN  [ok |-> TRUE, num |-> Slice(t, i + 4, j - 1),
                       content |-> Slice(t, k, p - 1), end |-> p]

RECURSIVE Scan(_, _)
\* findall from pos: the leftmost match, then on from where it ended
Scan(t, pos) ==
    IF pos > Len(t) THEN <<>>
    ELSE LET m == MatchAt(t, pos)
         IN  IF m.ok THEN <<<<m.num, m.content>>>> \o Scan(t, m.end)
             ELSE Scan(t, pos + 1)

\* day_pattern.findall(plan_text)
FindAll(t) == Scan(t, 1)

(* ------------------------ int(), strip(), str() ------------------------ *)

RECURSIVE ParseInt(_)
\* int(day_num) of a string of decimal digits
ParseInt(ds) ==
    IF ds = <<>> THEN 0
    ELSE 10 * ParseInt(SubSeq(ds, 1, Len(ds) - 1)) + DigitVal(ds[Len(ds)])

RECURSIVE IntToStr(_)
\* the decimal digits of n >= 0, as the f-string writes {day_num}
IntToStr(n) ==
    IF n < 10 THEN <<Digits[n + 1]>>
    ELSE IntToStr(n \div 10) \o <<Digits[(n % 10) + 1]>>

\* str.strip(): leading and trailing whitespace removed
Strip(t) ==
    LET keep == {x \in 1..Len(t) : ~IsSpace(t[x])}
    IN  IF keep = {} THEN <<>> ELSE Slice(t, Min(keep), Max(keep))

(* ------------------------------- dates --------------------------------- *)

IsLeap(y) == y % 4 = 0 /\ (y % 100 # 0 \/ y % 400 = 0)

DaysInMonth(y, m) ==
    IF m = 2 THEN (IF IsLeap(y) THEN 29 ELSE 28)
    ELSE IF m \in {4, 6, 9, 11} THEN 30 ELSE 31

RECURSIVE DaysBeforeMonth(_, _)
DaysBeforeMonth(y, m) ==
    IF m = 1 THEN 0 ELSE DaysBeforeMonth(y, m - 1) + DaysInMonth(y, m - 1)

DaysBeforeYear(y) ==
    LET z == y - 1 IN z * 365 + z \div 4 - z \div 100 + z \div 400

\* date.toordinal(): 0001-01-01 is day 1
ToOrdinal(dt) == DaysBeforeYear(dt[1]) + DaysBeforeMonth(dt[1], dt[2]) + dt[3]

\* date.fromordinal(), by the 400/100/4/1-year cycles
FromOrdinal(n) ==
    LET n0   == n - 1
        n400 == n0 \div 146097
        r400 == n0 % 146097
        n100 == r400 \div 36524
        r100 == r400 % 36524
        n4   == r100 \div 1461
        r4   == r100 % 1461
        n1   == r4 \div 365
        r1   == r4 % 365
        year == n400 * 400 + 1 + n100 * 100 + n4 * 4 + n1
    IN  IF n1 = 4 \/ n100 = 4 THEN <<year - 1, 12, 31>>
        ELSE LET m == CHOOSE mm \in 1..12 :
                        /\ DaysBeforeMonth(year, mm) <= r1
                        /\ r1 < DaysBeforeMonth(year, mm) + DaysInMonth(year, mm)
             IN  <<year, m, r1 - DaysBeforeMonth(year, m) + 1>>

\* date.min and date.max
MinOrdinal == ToOrdinal(<<1, 1, 1>>)
MaxOrdinal == ToOrdinal(<<9999, 12, 31>>)

\* the largest |days| a timedelta holds
MaxDeltaDays == 999999999

\* days=day_num, the offset of an itinerary that counts its days from 0
DayOffsetFromZero(n) == n

\* days=day_num - 1
DayOffset(n) == n - 1

(* ------------------------------ inputs --------------------------------- *)

\* The pieces itinerary texts are assembled from.
Frags == <<
    <<"D", "a", "y", " ", "1", ":", " ">>,
    <<"D", "a", "y", " ", "2", ":">>,
    <<"D", "a", "y", " ", "2">>,
    <<"D", "a", "y", " ">>,
    <<"0", " ">>,
    <<"d", "a", "y", " ", "1", ":", " ">>,
    <<"D", "a", "y", " ", "1", ".">>,
    <<"A", ".">>,
    <<" ", "B", "\n">>,
    <<"D", "a", "y", " ", "9", "9", "9", "9", "9", "9", "9", ":", " ">> >>

RECURSIVE Concat(_)
Concat(fs) ==
    IF fs = <<>> THEN <<>> ELSE Frags[Head(fs)] \o Concat(Tail(fs))

\* Every text of at most MaxFrags pieces, the empty text among them.
Texts ==
    {Concat(fs) : fs \in UNION {[1..n -> 1..Len(Frags)] : n \in 0..MaxFrags}}

\* The texts the concurrent callers convert: two markers out of order, a
\* repeated marker, no marker.
SmallTexts == {Concat(fs) : fs \in {<<2, 8, 1, 9>>, <<1, 8, 1, 9>>, <<9>>}}

Dt(d) == [kind |-> "datetime", date |-> d]

\* start_date left out by the caller
NoneStart == [kind |-> "None", date |-> <<0, 0, 0>>]

\* a start date that is no calendar date: the string "2024-02-30" passed
\* where a datetime is expected
BadStart == [kind |-> "str", date |-> <<2024, 2, 30>>]

GoodStarts == {Dt(<<2024, 12, 31>>), Dt(<<2024, 2, 28>>)}

Starts == GoodStarts \cup {NoneStart, BadStart}

\* what datetime.today() may answer
Todays == {<<2026, 11, 5>>, <<2026, 12, 31>>}

(* ----------------------- the calendar components ----------------------- *)

\* a calendar kept at module level, shared by every call
CalOfShared(c) == 1

\* cal = Calendar(): each call builds its own calendar
CalOf(c) == c

NewCalendar ==
    [prodid |-> "-//AI Travel Planner//github.com//", version |-> "2.0",
     events |-> <<>>]

\* a component replaces the one already carrying its summary
AddComponentMerged(cal, ev) ==
    IF \E k \in 1..Len(cal.events) : cal.events[k].summary = ev.summary
    THEN cal
    ELSE [cal EXCEPT !.events = Append(@, ev)]

\* cal.add_component(event)
AddComponent(cal, ev) == [cal EXCEPT !.events = Append(@, ev)]

\* the iterable the for loop walks back to front
DayItemReversed(ds, i) == ds[Len(ds) + 1 - i]

\* the i-th (day_num, day_content) the for loop takes
DayItem(ds, i) == ds[i]

\* event.add('description', day_content.strip())
DayDescription(content) == Strip(content)

\* the whole text stripped first
FallbackDescriptionStripped(t) == Strip(t)

\* event.add('description', plan_text)
FallbackDescription(t) == t

\* f"Day {day_num} Itinerary"
DaySummary(n) == <<"Day ">> \o IntToStr(n) \o <<" Itinerary">>

FallbackSummary == <<"Travel Itinerary">>

\* dtend on the day after dtstart, the exclusive end of an all-day event
DtEndExclusive(d) == FromOrdinal(ToOrdinal(d) + 1)

\* event.add('dtend', current_date.date())
DtEnd(d) == d

MakeEvent(summary, description, d, stamp) ==
    [summary |-> summary, description |-> description,
     dtstart |-> d, dtend |-> DtEnd(d), dtstamp |-> stamp]

NoResult == [prodid |-> "", version |-> "", events |-> <<>>]

(* ------------------------------ the page ------------------------------- *)

\* an itinerary text, st.session_state.itinerary or response.content
Str(t) == [kind |-> "str", text |-> t]

\* None
NoneText == [kind |-> "None", text |-> <<>>]

\* `if st.session_state.itinerary:`
Truthy(it) == it.kind = "str" /\ it.text # <<>>

\* Lines 207-208 and 427-438: the session state of a new session.
NewSession ==
    [setup_complete |-> FALSE, gemini_api_key |-> "", google_maps_key |-> "",
     itinerary |-> NoneText, theme |-> "light"]

\* no run of the script yet
NoRun == [page |-> "none", last |-> "none", shown |-> NoneText]

\* what a call hands to its caller: a value returned or an error raised
Returns(v) == [kind |-> "return", value |-> v, error |-> "none"]

Raises(e) == [kind |-> "raise", value |-> NoneText, error |-> e]

Nothing == [kind |-> "none", value |-> NoneText, error |-> "none"]

\* no call of run_travel_planner in progress
NoPlanner ==
    [pc |-> "idle", gemini_key |-> "", google_maps_key |-> "", mcp |-> "unbound",
     conn |-> "none", closes |-> 0, pending |-> Nothing, outcome |-> Nothing]

(* ------------------------- generate_ics_content ------------------------ *)

\* Lines 55-57 for one (day_num, day_content): the date of the event, or
\* the exception raised on the way to it.
DayDate(sd, n) ==
    LET off == DayOffset(n)
    IN  IF off > MaxDeltaDays \/ off < -MaxDeltaDays
        THEN [ok |-> FALSE, err |-> "OverflowError"]   \* timedelta(days=...)
        ELSE IF sd.kind # "datetime"
        THEN [ok |-> FALSE, err |-> "TypeError"]       \* str + timedelta
        ELSE LET o == ToOrdinal(sd.date) + off
             IN  IF o < MinOrdinal \/ o > MaxOrdinal
                 THEN [ok |-> FALSE, err |-> "OverflowError"] \* date out of range
                 ELSE [ok |-> TRUE, date |-> FromOrdinal(o)]

\* Lines 34-45: the calendar is created, a missing start date becomes
\* today, the text is split into days and the branch is chosen.
Begin(c) ==
    /\ pc[c] = "idle"
    /\ cals' = [cals EXCEPT ![CalOf(c)] = NewCalendar]
    /\ \E sd \in (IF start[c].kind = "None"
                  THEN {Dt(today) : today \in Todays} ELSE {start[c]}) :
         sdate' = [sdate EXCEPT ![c] = sd]
    /\ days' = [days EXCEPT ![c] = FindAll(text[c])]
    /\ idx' = [idx EXCEPT ![c] = 1]
    /\ pc' = [pc EXCEPT ![c] = IF days'[c] = <<>> THEN "fallback" ELSE "loop"]
    /\ UNCHANGED <<text, start, result, err, clock, calls>>
    /\ UNCHANGED appVars

\* Lines 46-52: no day found, one event holding the whole text.  A start
\* date that is no datetime has no date() and the call raises.
Fallback(c) ==
    /\ pc[c] = "fallback"
    /\ IF sdate[c].kind # "datetime"
       THEN /\ pc' = [pc EXCEPT ![c] = "raised"]
            /\ err' = [err EXCEPT ![c] = "AttributeError"]
            /\ UNCHANGED <<cals, clock>>
       ELSE /\ cals' = [cals EXCEPT ![CalOf(c)] =
                          AddComponent(@, MakeEvent(FallbackSummary,
                                                    FallbackDescription(text[c]),
                                                    sdate[c].date, clock))]
            /\ clock' = clock + 1
            /\ pc' = [pc EXCEPT ![c] = "return"]
            /\ UNCHANGED err
    /\ UNCHANGED <<text, start, sdate, days, idx, result, calls>>
    /\ UNCHANGED appVars

\* Lines 55-68: one turn of the loop over the days found; the loop ends
\* after the last one.
DayStep(c) ==
    /\ pc[c] = "loop"
    /\ LET item == DayItem(days[c], idx[c])
           n    == ParseInt(item[1])
           dd   == DayDate(sdate[c], n)
       IN  IF ~dd.ok
           THEN /\ pc' = [pc EXCEPT ![c] = "raised"]
                /\ err' = [err EXCEPT ![c] = dd.err]
                /\ UNCHANGED <<cals, clock, idx>>
           ELSE /\ cals' = [cals EXCEPT ![CalOf(c)] =
                              AddComponent(@, MakeEvent(DaySummary(n),
                                                        DayDescription(item[2]),
                                                        dd.date, clock))]
                /\ clock' = clock + 1
                /\ idx' = [idx EXCEPT ![c] = @ + 1]
                /\ pc' = [pc EXCEPT ![c] =
                            IF idx[c] = Len(days[c]) THEN "return" ELSE "loop"]
                /\ UNCHANGED err
    /\ UNCHANGED <<text, start, sdate, days, result, calls>>
    /\ UNCHANGED appVars

\* Line 70: the calendar is serialised and handed back.
Return(c) ==
    /\ pc[c] = "return"
    /\ result' = [result EXCEPT ![c] = cals[CalOf(c)]]
    /\ pc' = [pc EXCEPT ![c] = "done"]
    /\ UNCHANGED <<text, start, sdate, days, idx, cals, err, clock, calls>>
    /\ UNCHANGED appVars

\* A caller whose call has ended (lines 616-619 on the next rerun of the
\* page) converts another text.
Again(c) ==
    /\ pc[c] \in {"done", "raised"}
    /\ calls[c] < MaxCalls
    /\ \E t \in SmallTexts, s \in GoodStarts :
         /\ text' = [text EXCEPT ![c] = t]
         /\ start' = [start EXCEPT ![c] = s]
    /\ calls' = [calls EXCEPT ![c] = @ + 1]
    /\ pc' = [pc EXCEPT ![c] = "idle"]
    /\ result' = [result EXCEPT ![c] = NoResult]
    /\ err' = [err EXCEPT ![c] = "none"]
    /\ UNCHANGED <<sdate, days, idx, cals, clock>>
    /\ UNCHANGED appVars

(* --------------------------- specifications ---------------------------- *)

InitFor(C, T, S) ==
    /\ text \in [C -> T]
    /\ start \in [C -> S]
    /\ pc = [c \in C |-> "idle"]
    /\ sdate = [c \in C |-> NoneStart]
    /\ days = [c \in C |-> <<>>]
    /\ idx = [c \in C |-> 1]
    /\ cals = [c \in C |-> NewCalendar]
    /\ result = [c \in C |-> NoResult]
    /\ err = [c \in C |-> "none"]
    /\ clock = 0
    /\ calls = [c \in C |-> 1]
    /\ session = NewSession
    /\ ui = NoRun
    /\ planner = NoPlanner

\* One caller, one call, any text and any start date.
Init == InitFor({1}, Texts, Starts)

Next ==
    \/ \E c \in DOMAIN pc : Begin(c)
    \/ \E c \in DOMAIN pc : Fallback(c)
    \/ \E c \in DOMAIN pc : DayStep(c)
    \/ \E c \in DOMAIN pc : Return(c)

Spec == Init /\ [][Next]_vars

\* Two callers whose calls interleave, each converting one text after another.
InitConc == InitFor({1, 2}, SmallTexts, GoodStarts)

NextConc ==
    \/ \E c \in DOMAIN pc : Begin(c)
    \/ \E c \in DOMAIN pc : Fallback(c)
    \/ \E c \in DOMAIN pc : DayStep(c)
    \/ \E c \in DOMAIN pc : Return(c)
    \/ \E c \in DOMAIN pc : Again(c)

SpecConc == InitConc /\ [][NextConc]_vars

(* ------------------- day markers, read off the text -------------------- *)

DayWord == <<"D", "a", "y", " ">>

HasDayWord(t, i) == i + 3 <= Len(t) /\ Slice(t, i, i + 3) = DayWord

RECURSIVE RunEnd(_, _)
\* the first position from x on that holds no digit
RunEnd(t, x) ==
    IF x <= Len(t) /\ t[x] \in {"0", "1", "2", "3", "4", "5", "6", "7", "8", "9"}
    THEN RunEnd(t, x + 1) ELSE x

\* `Day <digits>` starts at i
DayDigitsAt(t, i) == HasDayWord(t, i) /\ RunEnd(t, i + 4) > i + 4

\* a day marker starts at i: Day, digits, then a colon or whitespace
MarkerAt(t, i) ==
    /\ DayDigitsAt(t, i)
    /\ RunEnd(t, i + 4) <= Len(t)
    /\ t[RunEnd(t, i + 4)] \in {":", " ", "\n", "\t"}

MarkerPositions(t) == {i \in 1..Len(t) : MarkerAt(t, i)}

\* the k-th marker of the text, in the order of appearance
NthMarker(t, k) ==
    CHOOSE i \in MarkerPositions(t) :
        Cardinality({j \in MarkerPositions(t) : j < i}) = k - 1

RECURSIVE Pow10(_)
Pow10(e) == IF e = 0 THEN 1 ELSE 10 * Pow10(e - 1)

RECURSIVE PlaceSum(_, _, _)
\* the number written by the digits t[a..b]
PlaceSum(t, a, b) ==
    IF a > b THEN 0
    ELSE DigitVal(t[a]) * Pow10(b - a) + PlaceSum(t, a + 1, b)

\* the day number N of the marker at i
MarkerNumber(t, i) == PlaceSum(t, i + 4, RunEnd(t, i + 4) - 1)

RECURSIVE SepRunEnd(_, _)
SepRunEnd(t, x) ==
    IF x <= Len(t) /\ t[x] \in {":", " ", "\n", "\t"}
    THEN SepRunEnd(t, x + 1) ELSE x

\* where the text that follows the marker at i begins
AfterMarker(t, i) == SepRunEnd(t, RunEnd(t, i + 4))

\* where the next marker after position i begins, or the end of the text
NextMarkerOrEnd(t, i) ==
    LET later == {j \in MarkerPositions(t) : j > i}
    IN  IF later = {} THEN Len(t) + 1 ELSE Min(later)

Tomorrow(d) ==
    IF d[3] < DaysInMonth(d[1], d[2]) THEN <<d[1], d[2], d[3] + 1>>
    ELSE IF d[2] < 12 THEN <<d[1], d[2] + 1, 1>>
    ELSE <<d[1] + 1, 1, 1>>

Yesterday(d) ==
    IF d[3] > 1 THEN <<d[1], d[2], d[3] - 1>>
    ELSE IF d[2] > 1 THEN <<d[1], d[2] - 1, DaysInMonth(d[1], d[2] - 1)>>
    ELSE <<d[1] - 1, 12, 31>>

RECURSIVE Walk(_, _)
\* the date n days from d, one day at a time
Walk(d, n) ==
    IF n = 0 THEN d
    ELSE IF n > 0 THEN Walk(Tomorrow(d), n - 1)
    ELSE Walk(Yesterday(d), n + 1)

Callers == DOMAIN pc

Returned(c) == pc[c] = "done"

(* ------------------------------- claims -------------------------------- *)

\* C1: the calendar returned holds one event per day marker of the text,
\* markers of the same number counted separately, and exactly one event
\* when the text holds no marker.
C1_EventCount ==
    \A c \in Callers :
        Returned(c) =>
            Len(result[c].events) =
                IF MarkerPositions(text[c]) = {} THEN 1
                ELSE Cardinality(MarkerPositions(text[c]))

\* a call has returned two events for two markers of the same number
C1_Witness ==
    \E c \in Callers :
        /\ Returned(c)
        /\ Len(result[c].events) = 2
        /\ \E i, j \in MarkerPositions(text[c]) :
             i < j /\ MarkerNumber(text[c], i) = MarkerNumber(text[c], j)

\* C2: the event of a marker numbered N is dated startDate + (N - 1) days,
\* across month and year ends (2024-12-31 and N = 2 give 2025-01-01).
C2_EventDate ==
    \A c \in Callers :
        (Returned(c) /\ MarkerPositions(text[c]) # {}) =>
            \A k \in 1..Len(result[c].events) :
                LET n == MarkerNumber(text[c], NthMarker(text[c], k))
                    d == result[c].events[k].dtstart
                IN  /\ d = Walk(sdate[c].date, n - 1)
                    /\ (sdate[c].date = <<2024, 12, 31>> /\ n = 2)
                          => d = <<2025, 1, 1>>

\* an event of marker 2 from 2024-12-31 has been returned, dated in 2025
C2_Witness ==
    \E c \in Callers :
        /\ Returned(c)
        /\ start[c] = Dt(<<2024, 12, 31>>)
        /\ MarkerPositions(text[c]) # {}
        /\ \E k \in 1..Len(result[c].events) :
             /\ MarkerNumber(text[c], NthMarker(text[c], k)) = 2
             /\ result[c].events[k].dtstart = <<2025, 1, 1>>

\* C3: with a well-formed start date (or none) the call raises on no text,
\* whatever day numbers its markers carry.
C3_NeverRaises ==
    \A c \in Callers :
        start[c].kind \in {"datetime", "None"} => pc[c] # "raised"

\* C4: the description of a marker's event is the trimmed text from the end
\* of the marker up to the next marker, or to the end of the text: nothing
\* after a marker is left out of every description.
C4_DescriptionUpToNextMarker ==
    \A c \in Callers :
        (Returned(c) /\ MarkerPositions(text[c]) # {}) =>
            \A k \in 1..Len(result[c].events) :
                LET i == NthMarker(text[c], k)
                IN  result[c].events[k].description =
                        Strip(Slice(text[c], AfterMarker(text[c], i),
                                    NextMarkerOrEnd(text[c], i) - 1))

NoDayDigits(t) == \A i \in 1..Len(t) : ~DayDigitsAt(t, i)

\* C5, as claimed: a text without `Day <digits>` gives one event titled
\* "Travel Itinerary", dated startDate, described by the trimmed text.
C5_FallbackTrimmed ==
    \A c \in Callers :
        (Returned(c) /\ NoDayDigits(text[c])) =>
            /\ Len(result[c].events) = 1
            /\ result[c].events[1].summary = <<"Travel Itinerary">>
            /\ result[c].events[1].dtstart = sdate[c].date
            /\ result[c].events[1].description = Strip(text[c])

\* C5, amended: a text without `Day <digits>` gives one event titled
\* "Travel Itinerary", dated startDate, described by the text as it was
\* given, its leading and trailing whitespace kept.
C5_FallbackVerbatim ==
    \A c \in Callers :
        (Returned(c) /\ NoDayDigits(text[c])) =>
            /\ Len(result[c].events) = 1
            /\ result[c].events[1].summary = <<"Travel Itinerary">>
            /\ result[c].events[1].dtstart = sdate[c].date
            /\ result[c].events[1].description = text[c]

\* a text without `Day <digits>` that trimming would change has been
\* converted
C5_Witness ==
    \E c \in Callers :
        /\ Returned(c)
        /\ NoDayDigits(text[c])
        /\ Strip(text[c]) # text[c]
        /\ Len(result[c].events) = 1

RECURSIVE Canon(_)
\* a digit string as a number is written: leading zeros dropped
Canon(ds) == IF Len(ds) > 1 /\ ds[1] = "0" THEN Canon(Tail(ds)) ELSE ds

\* the digits of the marker at i
MarkerDigits(t, i) == Slice(t, i + 4, RunEnd(t, i + 4) - 1)

\* C6: the events come in the order the markers appear in the text, not in
\* the order of their numbers: the k-th event is titled "Day {N} Itinerary"
\* and dated by the number N of the k-th marker.
C6_TextOrder ==
    \A c \in Callers :
        (Returned(c) /\ MarkerPositions(text[c]) # {}) =>
            /\ Len(result[c].events) = Cardinality(MarkerPositions(text[c]))
            /\ \A k \in 1..Len(result[c].events) :
                 LET i == NthMarker(text[c], k)
                     e == result[c].events[k]
                 IN  /\ e.summary = <<"Day ">> \o Canon(MarkerDigits(text[c], i))
                                       \o <<" Itinerary">>
                     /\ ToOrdinal(e.dtstart) =
                            ToOrdinal(sdate[c].date) + MarkerNumber(text[c], i) - 1

\* Day 2 then Day 1 has been converted: the Day 2 event comes first, on the
\* day after the start date, the Day 1 event second, on the start date
C6_Witness ==
    \E c \in Callers :
        /\ Returned(c)
        /\ Len(result[c].events) = 2
        /\ Cardinality(MarkerPositions(text[c])) = 2
        /\ MarkerNumber(text[c], NthMarker(text[c], 1)) = 2
        /\ MarkerNumber(text[c], NthMarker(text[c], 2)) = 1
        /\ result[c].events[1].summary = <<"Day ", "2", " Itinerary">>
        /\ result[c].events[1].dtstart = Tomorrow(sdate[c].date)
        /\ result[c].events[2].summary = <<"Day ", "1", " Itinerary">>
        /\ result[c].events[2].dtstart = sdate[c].date

\* C7: a call given a start date that is no well-formed calendar date ends
\* in the InvalidInput error, and in nothing else.
C7_InvalidInput ==
    \A c \in Callers :
        (start[c].kind = "str" /\ pc[c] \in {"done", "raised"}) =>
            pc[c] = "raised" /\ err[c] = "InvalidInput"

WithoutStamps(evs) ==
    [k \in 1..Len(evs) |->
        [summary |-> evs[k].summary, description |-> evs[k].description,
         dtstart |-> evs[k].dtstart, dtend |-> evs[k].dtend]]

\* The events of one call run on its own.
EventsAlone(t, sd) ==
    LET ds == FindAll(t)
    IN  IF ds = <<>>
        THEN <<MakeEvent(FallbackSummary, FallbackDescription(t), sd.date, 0)>>
        ELSE [k \in 1..Len(ds) |->
                MakeEvent(DaySummary(ParseInt(ds[k][1])), DayDescription(ds[k][2]),
                          DayDate(sd, ParseInt(ds[k][1])).date, 0)]

\* C8: whatever calls of other callers ran in between, a call returns the
\* events the same call returns when run alone on the same text and start
\* date, the stamps aside.
C8_NoSharedState ==
    \A c \in Callers :
        Returned(c) =>
            /\ WithoutStamps(result[c].events)
                 = WithoutStamps(EventsAlone(text[c], start[c]))
            /\ result[c].prodid = NewCalendar.prodid
            /\ result[c].version = NewCalendar.version

\* a call has returned two events between which another caller's call
\* added an event of its own
C8_Witness ==
    \E c \in Callers :
        /\ Returned(c)
        /\ \E k \in 1..(Len(result[c].events) - 1) :
             result[c].events[k + 1].dtstamp > result[c].events[k].dtstamp + 1

\* the events a call has added so far, and those it has returned
EventsOf(c) ==
    {cals[CalOf(c)].events[k] : k \in 1..Len(cals[CalOf(c)].events)}
        \cup {result[c].events[k] : k \in 1..Len(result[c].events)}

\* C9: every event, of a marker or of the fallback, starts and ends on the
\* same date.
C9_SingleDay == \A c \in Callers : \A e \in EventsOf(c) : e.dtend = e.dtstart

\* events of markers on different dates have been returned
C9_Witness ==
    \E c \in Callers :
        /\ Returned(c)
        /\ \E e, f \in EventsOf(c) :
             /\ e.dtstart # f.dtstart
             /\ e.dtend = e.dtstart
             /\ f.dtend = f.dtstart

\* C10: only `Day`, digits and then a colon or whitespace make a marker: a
\* text in which nothing matches that, case included, gives no per-day
\* event and takes the single-event fallback.
C10_MarkerPattern ==
    \A c \in Callers :
        MarkerPositions(text[c]) = {} =>
            /\ pc[c] # "loop"
            /\ days[c] = <<>>
            /\ Returned(c) =>
                 /\ Len(result[c].events) = 1
                 /\ result[c].events[1].summary = <<"Travel Itinerary">>

\* a text holding a lowercase `day 1:`, a `Day 1.` and a final `Day 2`, and
\* no marker, has been converted to the single fallback event
C10_Witness ==
    \E c \in Callers :
        /\ Returned(c)
        /\ MarkerPositions(text[c]) = {}
        /\ \E i \in 1..Len(text[c]) :
             /\ i + 5 <= Len(text[c])
             /\ Slice(text[c], i, i + 5) = <<"d", "a", "y", " ", "1", ":">>
        /\ \E i \in 1..Len(text[c]) :
             /\ DayDigitsAt(text[c], i)
             /\ RunEnd(text[c], i + 4) <= Len(text[c])
             /\ text[c][RunEnd(text[c], i + 4)] = "."
        /\ \E i \in 1..Len(text[c]) :
             DayDigitsAt(text[c], i) /\ RunEnd(text[c], i + 4) = Len(text[c]) + 1
        /\ Len(result[c].events) = 1
        /\ result[c].events[1].summary = <<"Travel Itinerary">>

(* --------------------------- the Streamlit page ------------------------ *)

\* what the user may type into a key field
KeyInputs == {"", "key-1", "key-2"}

\* what the user may type as the destination
Destinations == {"", "Paris"}

\* what response.content may be: itinerary texts, the empty text, None
Responses ==
    {Str(Concat(<<9>>)), Str(Concat(<<2, 8, 1, 9>>)), Str(<<>>), NoneText}

\* line 448 / 506: the interface a run of the script draws
PageOf(sess) == IF ~sess.setup_complete THEN "signin" ELSE "main"

\* nothing runs: no planner call and no conversion is under way
Quiescent ==
    /\ planner.pc = "idle"
    /\ \A c \in DOMAIN pc : pc[c] \in {"done", "raised"}

\* Lines 616-619: generate_ics_content is called on the stored itinerary.
Export(it) ==
    /\ \E s \in GoodStarts : start' = [start EXCEPT ![1] = s]
    /\ text' = [text EXCEPT ![1] = it.text]
    /\ pc' = [pc EXCEPT ![1] = "idle"]
    /\ calls' = [calls EXCEPT ![1] = @ + 1]
    /\ result' = [result EXCEPT ![1] = NoResult]
    /\ err' = [err EXCEPT ![1] = "none"]
    /\ UNCHANGED <<sdate, days, idx, cals, clock>>

\* Lines 448-632 from the session state sess on: the interface is drawn and,
\* on the main interface, a stored itinerary is exported and shown.
Draw(sess, handler) ==
    LET live == PageOf(sess) = "main" /\ Truthy(sess.itinerary)
    IN  /\ ui' = [page |-> PageOf(sess), last |-> handler,
                  shown |-> IF live THEN sess.itinerary ELSE NoneText]
        /\ IF live THEN Export(sess.itinerary) ELSE UNCHANGED convVars

\* `if gemini_key_input or google_maps_key_input`
KeysOkEither(g, m) == g # "" \/ m # ""

\* line 492: `if gemini_key_input and google_maps_key_input`
KeysOk(g, m) == g # "" /\ m # ""

\* Lines 491-503: Start Planning clicked with g and m in the key fields.
StartPlanning(g, m) ==
    /\ Quiescent /\ calls[1] < MaxCalls
    /\ ~session.setup_complete
    /\ IF KeysOk(g, m)
       THEN LET sess == [session EXCEPT !.gemini_api_key = g,
                                        !.google_maps_key = m,
                                        !.setup_complete = TRUE]
            IN  session' = sess /\ Draw(sess, "start")          \* st.rerun()
       ELSE session' = session /\ Draw(session, "start_refused")
    /\ UNCHANGED planner

\* reset_app that clears the keys too
ResetAppClearingKeys(sess) ==
    [sess EXCEPT !.setup_complete = FALSE, !.itinerary = NoneText,
                 !.gemini_api_key = "", !.google_maps_key = ""]

\* Lines 441-445: reset_app()
ResetApp(sess) ==
    [sess EXCEPT !.setup_complete = FALSE, !.itinerary = NoneText]

\* Lines 521-523: Reset Configuration clicked.
ResetConfiguration ==
    /\ Quiescent /\ calls[1] < MaxCalls
    /\ session.setup_complete
    /\ session' = ResetApp(session)
    /\ Draw(session', "reset")                                   \* st.rerun()
    /\ UNCHANGED planner

\* Lines 210-214, 463-469, 512-518: a Dark Mode toggle changed; set_theme
\* runs, then the script.
ToggleTheme(is_dark) ==
    /\ Quiescent /\ calls[1] < MaxCalls
    /\ session' = [session EXCEPT !.theme = IF is_dark THEN "dark" ELSE "light"]
    /\ Draw(session', "theme")
    /\ UNCHANGED planner

\* Lines 574-599: Generate Itinerary clicked.  Without a destination the
\* run only reports it; with one, run_travel_planner is called with the
\* stored keys.  (`preferences` is never empty, line 568.)
GenerateItinerary(destination) ==
    /\ Quiescent /\ calls[1] < MaxCalls
    /\ session.setup_complete
    /\ IF destination = ""
       THEN Draw(session, "generate_refused") /\ UNCHANGED planner
       ELSE /\ planner' = [NoPlanner EXCEPT
                             !.pc = "try",
                             !.gemini_key = session.gemini_api_key,
                             !.google_maps_key = session.google_maps_key]
            /\ ui' = [ui EXCEPT !.last = "generate"]
            /\ UNCHANGED convVars
    /\ UNCHANGED session

(* ------------------------ run_mcp_travel_planner ----------------------- *)

\* Lines 75-89: the try block is entered, the key is put in the environment
\* and MultiMCPTools is constructed, which may fail.
PlannerConstruct(ok) ==
    /\ planner.pc = "try"
    /\ planner' = IF ok
                  THEN [planner EXCEPT !.mcp = "bound", !.pc = "connect"]
                  ELSE [planner EXCEPT !.pending = Raises("ConstructError"),
                                       !.pc = "finally"]
    /\ UNCHANGED <<convVars, session, ui>>

\* Line 92: await mcp_tools.connect(), which may fail.
PlannerConnect(ok) ==
    /\ planner.pc = "connect"
    /\ planner' = IF ok
                  THEN [planner EXCEPT !.conn = "open", !.pc = "run"]
                  ELSE [planner EXCEPT !.pending = Raises("ConnectError"),
                                       !.pc = "finally"]
    /\ UNCHANGED <<convVars, session, ui>>

\* Lines 95-188: the agent is built and run; its content is returned, or the
\* run fails.
PlannerRun(ok, r) ==
    /\ planner.pc = "run"
    /\ planner' = [planner EXCEPT
                     !.pending = IF ok THEN Returns(r) ELSE Raises("RunError"),
                     !.pc = "finally"]
    /\ UNCHANGED <<convVars, session, ui>>

\* Lines 190-191: finally: await mcp_tools.close().  When the constructor
\* failed, mcp_tools was never bound: reading it raises UnboundLocalError,
\* which leaves the function in place of the failure under way.
PlannerFinally ==
    /\ planner.pc = "finally"
    /\ planner' = IF planner.mcp = "unbound"
                  THEN [planner EXCEPT !.outcome = Raises("UnboundLocalError"),
                                       !.pc = "exit"]
                  ELSE [planner EXCEPT !.closes = @ + 1, !.conn = "closed",
                                       !.outcome = planner.pending,
                                       !.pc = "exit"]
    /\ UNCHANGED <<convVars, session, ui>>

\* the itinerary dropped when the planner fails
ItineraryClearedOnFailure(it, out) ==
    IF out.kind = "return" THEN out.value ELSE NoneText

\* Lines 590-614: the response of a call that returned is stored (line 602);
\* a call that raised is reported (lines 612-614).
ItineraryAfter(it, out) == IF out.kind = "return" THEN out.value ELSE it

\* Lines 193-195 and 600-632: run_travel_planner hands back what the
\* coroutine ended with, the handler stores or reports it, and the run goes
\* on to the download column and the display.  (A response that is None
\* is stored by line 602 before line 605 raises TypeError, which line 612
\* catches.)
GenerateFinish ==
    /\ planner.pc = "exit"
    /\ session' = [session EXCEPT
                     !.itinerary = ItineraryAfter(@, planner.outcome)]
    /\ planner' = NoPlanner
    /\ Draw(session', IF planner.outcome.kind = "return"
                      THEN "generate_returned" ELSE "generate_raised")

(* ------------------------- the page's behaviour ------------------------ *)

\* A new session, after the first run of the script: the sign-in page.
InitApp ==
    /\ text = [c \in {1} |-> <<>>]
    /\ start = [c \in {1} |-> NoneStart]
    /\ pc = [c \in {1} |-> "done"]
    /\ sdate = [c \in {1} |-> NoneStart]
    /\ days = [c \in {1} |-> <<>>]
    /\ idx = [c \in {1} |-> 1]
    /\ cals = [c \in {1} |-> NewCalendar]
    /\ result = [c \in {1} |-> NoResult]
    /\ err = [c \in {1} |-> "none"]
    /\ clock = 0
    /\ calls = [c \in {1} |-> 0]
    /\ session = NewSession
    /\ ui = [page |-> PageOf(NewSession), last |-> "open", shown |-> NoneText]
    /\ planner = NoPlanner

NextApp ==
    \/ \E g \in KeyInputs, m \in KeyInputs : StartPlanning(g, m)
    \/ ResetConfiguration
    \/ \E is_dark \in BOOLEAN : ToggleTheme(is_dark)
    \/ \E destination \in Destinations : GenerateItinerary(destination)
    \/ \E ok \in BOOLEAN : PlannerConstruct(ok)
    \/ \E ok \in BOOLEAN : PlannerConnect(ok)
    \/ \E ok \in BOOLEAN, r \in Responses : PlannerRun(ok, r)
    \/ PlannerFinally
    \/ GenerateFinish
    \/ \E c \in DOMAIN pc : Begin(c)
    \/ \E c \in DOMAIN pc : Fallback(c)
    \/ \E c \in DOMAIN pc : DayStep(c)
    \/ \E c \in DOMAIN pc : Return(c)

SpecApp == InitApp /\ [][NextApp]_vars

(* --------------------------- claims on the page ------------------------ *)

BothKeys(sess) == sess.gemini_api_key # "" /\ sess.google_maps_key # ""

\* C11: whenever setup_complete is true both stored keys are non-empty,
\* whatever was clicked before, and run_travel_planner is never under way
\* with an empty key.
C11_KeysWhenSetUp ==
    /\ session.setup_complete => BothKeys(session)
    /\ planner.pc # "idle" =>
         planner.gemini_key # "" /\ planner.google_maps_key # ""

\* run_travel_planner has been called with the keys stored by Start Planning
C11_Witness ==
    /\ session.setup_complete
    /\ planner.pc = "try"
    /\ planner.gemini_key = session.gemini_api_key
    /\ planner.google_maps_key = session.google_maps_key
    /\ BothKeys(session)

\* C12: a generation attempt whose planner call raised leaves the stored
\* itinerary as it was, still the one shown and exported; an attempt changes
\* the stored itinerary only to the response of a call that returned, and
\* nothing else changes it but the reset, which clears it.
C12_FailedAttemptKeepsItinerary ==
    [][/\ (planner.pc = "exit" /\ planner.outcome.kind = "raise") =>
            /\ session'.itinerary = session.itinerary
            /\ ui'.shown = IF Truthy(session.itinerary)
                           THEN session.itinerary ELSE NoneText
            /\ Truthy(session.itinerary) =>
                 text'[1] = session.itinerary.text /\ pc'[1] = "idle"
       /\ session'.itinerary # session.itinerary =>
            \/ /\ planner.pc = "exit"
               /\ planner.outcome.kind = "return"
               /\ session'.itinerary = planner.outcome.value
            \/ /\ session.setup_complete /\ ~session'.setup_complete
               /\ session'.itinerary = NoneText]_vars

\* an attempt has raised while an itinerary was stored: that itinerary is
\* still stored, shown and handed to generate_ics_content
C12_Witness ==
    /\ ui.last = "generate_raised"
    /\ Truthy(session.itinerary)
    /\ ui.shown = session.itinerary
    /\ text[1] = session.itinerary.text
    /\ pc[1] = "idle"

\* C13: the reset sets setup_complete to False and itinerary to None and
\* leaves the keys and the theme as they were; from then on the sign-in page
\* is drawn, no planner call and no export starts, and the main interface
\* comes back only by Start Planning with both keys non-empty.
C13_Reset ==
    [][/\ (session.setup_complete /\ ~session'.setup_complete) =>
            /\ session'.itinerary = NoneText
            /\ session'.gemini_api_key = session.gemini_api_key
            /\ session'.google_maps_key = session.google_maps_key
            /\ session'.theme = session.theme
            /\ ui'.page = "signin"
       /\ ~session.setup_complete =>
            /\ ui.page = "signin"
            /\ planner.pc = "idle" /\ planner'.pc = "idle"
            /\ calls' = calls
            /\ ui'.page = "main" =>
                 ui'.last = "start" /\ BothKeys(session')]_vars

\* the page has been reset after an itinerary was exported in dark mode:
\* the keys and the theme are still there, the sign-in page is drawn
C13_Witness ==
    /\ ui.last = "reset"
    /\ ~session.setup_complete
    /\ session.itinerary = NoneText
    /\ BothKeys(session)
    /\ session.theme = "dark"
    /\ ui.page = "signin"
    /\ calls[1] >= 1

\* C14: when run_mcp_travel_planner is left, close() has been executed
\* exactly once and what reaches the caller is what the try block ended
\* with: its result, or the failure that ended it.
C14_ClosedOnEveryExit ==
    planner.pc = "exit" =>
        planner.closes = 1 /\ planner.outcome = planner.pending

====
